---------------------------- MODULE Spec2Model ----------------------------
(***************************************************************************)
(* jnom-rs: a logos tokenizer (JsonLexer / tokenize) feeding nom-style     *)
(* matchers over a token slice (match_token, match_text, parse_string,     *)
(* parse_array, parse_obj).                                                *)
(*                                                                         *)
(* A source text is a sequence of one-character strings; offsets are       *)
(* 0-based as in Rust, a span <<s, e>> is the half-open range s..e.  The   *)
(* texts are ASCII, so byte offsets and character offsets coincide and \d  *)
(* is 0-9.  logos and nom are modelled by their documented behaviour:      *)
(* longest match at each offset, and separated_list0 ending the list at a  *)
(* recoverable error.                                                      *)
(***************************************************************************)
EXTENDS Integers, Sequences, FiniteSets, TLC

VARIABLES
    source,   \* the text handed to tokenize
    lexpos,   \* the logos lexer's offset into source
    lexdone,  \* JsonLexer::next has returned None: collect() is over
    tokens,   \* the Vec<JsonToken> collected so far
    cursor,   \* the caller's Input slice
    op,       \* the parser entry point that was called, "none" before
    arg,      \* its kind / text argument
    result    \* the IResult it returned

vars == <<source, lexpos, lexdone, tokens, cursor, op, arg, result>>

(***************************************************************************)
(* Bounds of the model.                                                    *)
(***************************************************************************)
\* longest source, in characters, of the character-level specification
MaxSrcLen == 4
\* most lexemes after the opening bracket of a token-level array source
MaxArrToks == 5
\* most lexemes after the opening brace of a token-level object source
MaxObjToks == 5
\* most members of a generated well-formed object
MaxMembers == 3

(***************************************************************************)
(* Text helpers.                                                           *)
(***************************************************************************)
Quote == "\""
Backslash == "\\"

DigitChars == <<"0", "1", "2", "3", "4", "5", "6", "7", "8", "9">>
Digit == {DigitChars[d] : d \in 1..10}
Newline == "\n"
\* \s
Whitespace == {" ", "\t", "\r", Newline}

\* Body applied to the value of v, v being evaluated once
With(v, Body(_)) == CHOOSE y \in {Body(x) : x \in {v}} : TRUE

\* &s[a..b]
Slice(s, a, b) == SubSeq(s, a + 1, b)

\* the character at 0-based offset i, "" past the end
CharAt(s, i) == IF i < Len(s) THEN s[i + 1] ELSE ""

RECURSIVE SeqsUpTo(_, _)
SeqsUpTo(S, n) ==
    IF n = 0 THEN {<<>>}
    ELSE LET shorter == SeqsUpTo(S, n - 1)
         IN  shorter \cup {Append(q, x) : q \in {r \in shorter : Len(r) = n - 1}, x \in S}

(***************************************************************************)
(* f64 payload of a Number token.  A value is <<m, e>> standing for        *)
(* m * 10^e, with m not divisible by 10, and <<0, 0>> for both zeros       *)
(* (0.0 == -0.0 in f64).                                                   *)
(***************************************************************************)
DigitVal(c) == CHOOSE d \in 0..9 : DigitChars[d + 1] = c

RECURSIVE DigitsVal(_, _)
DigitsVal(s, acc) ==
    IF s = <<>> THEN acc ELSE DigitsVal(Tail(s), 10 * acc + DigitVal(Head(s)))

RECURSIVE Normalize(_, _)
Normalize(m, e) ==
    IF m = 0 THEN <<0, 0>>
    ELSE IF m % 10 = 0 THEN Normalize(m \div 10, e + 1)
    ELSE <<m, e>>

\* end of the run of digits starting at p
RECURSIVE DigitsEnd(_, _)
DigitsEnd(s, p) == IF CharAt(s, p) \in Digit THEN DigitsEnd(s, p + 1) ELSE p

\* str::parse::<f64>() on a text matched by the number pattern
ParseF64(t) ==
    LET neg == CharAt(t, 0) = "-"
        i0  == IF neg THEN 1 ELSE 0
    IN  With(DigitsEnd(t, i0), LAMBDA i1 :
        With(IF CharAt(t, i1) = "." THEN DigitsEnd(t, i1 + 1) ELSE i1, LAMBDA f1 :
          LET nfr  == IF f1 > i1 THEN f1 - (i1 + 1) ELSE 0
              hasE == CharAt(t, f1) \in {"e", "E"}
              eneg == CharAt(t, f1 + 1) = "-"
              x0   == IF CharAt(t, f1 + 1) \in {"+", "-"} THEN f1 + 2 ELSE f1 + 1
              ex   == IF hasE THEN DigitsVal(Slice(t, x0, Len(t)), 0) ELSE 0
              mant == DigitsVal(Slice(t, i0, i1) \o Slice(t, i1 + 1, f1), 0)
          IN  With(Normalize(mant, (IF eneg THEN 0 - ex ELSE ex) - nfr), LAMBDA n :
                IF neg THEN <<0 - n[1], n[2]>> ELSE n)))

(***************************************************************************)
(* JsonTokenKind and the logos patterns.  A kind is [tag, val]; val is     *)
(* <<>> for the unit variants, the f64 for Number, the matched text for    *)
(* String.                                                                 *)
(***************************************************************************)
Unit(tag) == [tag |-> tag, val |-> <<>>]

\* #[token(...)] patterns: literal text -> kind
Literals ==
    { <<<<"{">>, "OpenBrace">>, <<<<"}">>, "CloseBrace">>,
      <<<<"[">>, "OpenBracket">>, <<<<"]">>, "CloseBracket">>,
      <<<<":">>, "Colon">>, <<<<",">>, "Comma">>,
      <<<<"t", "r", "u", "e">>, "True">>,
      <<<<"f", "a", "l", "s", "e">>, "False">>,
      <<<<"n", "u", "l", "l">>, "Null">> }

StartsWith(s, p, lit) ==
    /\ p + Len(lit) <= Len(s)
    /\ Slice(s, p, p + Len(lit)) = lit

\* -?\d+(\.\d+)?([eE][+-]?\d+)? : end of the longest match at p, p when none
NumberEnd(s, p) ==
    LET i0 == IF CharAt(s, p) = "-" THEN p + 1 ELSE p
    IN  With(DigitsEnd(s, i0), LAMBDA i1 :
        With(DigitsEnd(s, i1 + 1), LAMBDA f0 :
          LET f1 == IF CharAt(s, i1) = "." /\ f0 > i1 + 1 THEN f0 ELSE i1
              x0 == IF CharAt(s, f1 + 1) \in {"+", "-"} THEN f1 + 2 ELSE f1 + 1
          IN  With(DigitsEnd(s, x0), LAMBDA x1 :
                IF i1 = i0 THEN p
                ELSE IF CharAt(s, f1) \in {"e", "E"} /\ x1 > x0 THEN x1
                ELSE f1)))

\* "([^"\\]|\\.)*" : i scans the body; end of the match, or 0 when the
\* closing quote is never found ("." matches any character but a newline)
RECURSIVE StringBody(_, _)
StringBody(s, i) ==
    IF i >= Len(s) THEN 0
    ELSE IF CharAt(s, i) = Quote THEN i + 1
    ELSE IF CharAt(s, i) = Backslash
         THEN IF i + 1 < Len(s) /\ CharAt(s, i + 1) # Newline
              THEN StringBody(s, i + 2) ELSE 0
    ELSE StringBody(s, i + 1)

StringEnd(s, p) ==
    IF CharAt(s, p) # Quote THEN p
    ELSE With(StringBody(s, p + 1), LAMBDA e : IF e > 0 THEN e ELSE p)

\* \s+ with logos::skip
RECURSIVE SkipWhitespace(_, _)
SkipWhitespace(s, p) ==
    IF CharAt(s, p) \in Whitespace THEN SkipWhitespace(s, p + 1) ELSE p

\* One call of logos' Lexer::next at offset p: None at the end of input,
\* Some(Err) where no pattern matches, Some(Ok(kind)) with span() otherwise.
LogosNext(s, p) ==
    With(SkipWhitespace(s, p), LAMBDA b :
    With({l \in Literals : StartsWith(s, b, l[1])}, LAMBDA lits :
    With(NumberEnd(s, b), LAMBDA ne :
    With(StringEnd(s, b), LAMBDA se :
        LET lit == CHOOSE l \in lits : TRUE IN
        IF b >= Len(s) THEN [some |-> FALSE, err |-> FALSE, end |-> b]
        ELSE IF lits # {}
             THEN [some |-> TRUE, err |-> FALSE, kind |-> Unit(lit[2]),
                   span |-> <<b, b + Len(lit[1])>>]
        ELSE IF ne > b
             THEN [some |-> TRUE, err |-> FALSE,
                   kind |-> [tag |-> "Number", val |-> ParseF64(Slice(s, b, ne))],
                   span |-> <<b, ne>>]
        ELSE IF se > b
             THEN [some |-> TRUE, err |-> FALSE,
                   kind |-> [tag |-> "String", val |-> Slice(s, b, se)],
                   span |-> <<b, se>>]
        ELSE [some |-> TRUE, err |-> TRUE, end |-> b]))))

(***************************************************************************)
(* JsonToken and JsonLexer.                                                *)
(***************************************************************************)
\* mutant: the span's end stored as the offset of the token's last character
JsonTokenInclusiveEnd(src, kind, span) ==
    [source |-> src, kind |-> kind, at |-> Slice(src, span[1], span[2]),
     span |-> <<span[1], span[2] - 1>>]

JsonToken(src, kind, span) ==
    [source |-> src, kind |-> kind, at |-> Slice(src, span[1], span[2]), span |-> span]

\* JsonToken::text
Text(tok) == Slice(tok.source, tok.span[1], tok.span[2])

\* derive(PartialEq) on JsonTokenKind: same variant and same payload
KindEq(a, b) == a.tag = b.tag /\ a.val = b.val

\* mutant: a lexer error is skipped instead of ending the iteration
RECURSIVE JsonLexerNextSkipsErrors(_, _)
JsonLexerNextSkipsErrors(s, p) ==
    With(LogosNext(s, p), LAMBDA r :
        IF r.some /\ ~r.err
        THEN [some |-> TRUE, token |-> JsonToken(s, r.kind, r.span), end |-> r.span[2]]
        ELSE IF r.some THEN JsonLexerNextSkipsErrors(s, r.end + 1)
        ELSE [some |-> FALSE, token |-> <<>>, end |-> r.end])

\* <JsonLexer as Iterator>::next at lexer offset p: the token, or None
JsonLexerNext(s, p) ==
    With(LogosNext(s, p), LAMBDA r :
        IF r.some /\ ~r.err
        THEN [some |-> TRUE, token |-> JsonToken(s, r.kind, r.span), end |-> r.span[2]]
        ELSE [some |-> FALSE, token |-> <<>>, end |-> r.end])

(***************************************************************************)
(* Display for JsonTokenKind (used in the matchers' error messages).       *)
(***************************************************************************)
RECURSIVE DigitsOf(_)
DigitsOf(n) ==
    IF n < 10 THEN <<DigitChars[n + 1]>>
    ELSE Append(DigitsOf(n \div 10), DigitChars[(n % 10) + 1])

RECURSIVE Zeros(_)
Zeros(n) == IF n <= 0 THEN <<>> ELSE <<"0">> \o Zeros(n - 1)

\* f64's Display: plain decimal notation, no exponent, no trailing ".0"
FormatF64(v) ==
    LET m  == IF v[1] < 0 THEN 0 - v[1] ELSE v[1]
        ds == DigitsOf(m)
        e  == v[2]
        body == IF e >= 0 THEN ds \o Zeros(e)
                ELSE IF Len(ds) > 0 - e
                     THEN SubSeq(ds, 1, Len(ds) + e) \o <<".">> \o SubSeq(ds, Len(ds) + e + 1, Len(ds))
                ELSE <<"0", ".">> \o Zeros((0 - e) - Len(ds)) \o ds
    IN  IF v[1] < 0 THEN <<"-">> \o body ELSE body

Display(kind) ==
    IF kind.tag = "Number" THEN FormatF64(kind.val)
    ELSE IF kind.tag = "String" THEN kind.val
    ELSE IF kind.tag = "Whitespace" THEN <<" ">>
    ELSE (CHOOSE l \in Literals : l[2] = kind.tag)[1]

(***************************************************************************)
(* nom results.  Ok((rest, out)) or Err(Error(JError(msg))); panic stands  *)
(* for a Rust panic unwinding out of the call.  calls logs, in order, the  *)
(* leaf matchers that were run: which one, for what, with how many tokens  *)
(* left, and the error it returned (NoErr when it matched).                *)
(***************************************************************************)
NoErr == [msg |-> "", arg |-> <<>>]

Ok(rest, out, calls) ==
    [ok |-> TRUE, panic |-> FALSE, rest |-> rest, out |-> out,
     err |-> NoErr, calls |-> calls]

Err(e, calls) ==
    [ok |-> FALSE, panic |-> FALSE, rest |-> <<>>, out |-> <<>>, err |-> e, calls |-> calls]

Panic(calls) ==
    [ok |-> FALSE, panic |-> TRUE, rest |-> <<>>, out |-> <<>>,
     err |-> NoErr, calls |-> calls]

Call(fn, what, i, e) ==
    <<[fn |-> fn, what |-> what, left |-> Len(i), ok |-> e = NoErr, err |-> e]>>

(***************************************************************************)
(* JsonExpr: [tag, val].                                                   *)
(***************************************************************************)
JsonExpr(tag, val) == [tag |-> tag, val |-> val]

\* str::trim_matches(c): every leading and every trailing c removed
RECURSIVE TrimStartMatches(_, _)
TrimStartMatches(s, c) ==
    IF s # <<>> /\ Head(s) = c THEN TrimStartMatches(Tail(s), c) ELSE s

RECURSIVE TrimEndMatches(_, _)
TrimEndMatches(s, c) ==
    IF s # <<>> /\ s[Len(s)] = c THEN TrimEndMatches(SubSeq(s, 1, Len(s) - 1), c) ELSE s

TrimMatches(s, c) == TrimEndMatches(TrimStartMatches(s, c), c)

(***************************************************************************)
(* The matchers.                                                           *)
(***************************************************************************)
\* mutant: kinds compared by variant only, payloads ignored
match_token_by_variant(kind, i) ==
    IF i # <<>> /\ i[1].kind.tag = kind.tag
    THEN Ok(Tail(i), i[1], Call("match_token", kind.tag, i, NoErr))
    ELSE With([msg |-> "JsonToken Kind {kind} does not match", arg |-> Display(kind)],
              LAMBDA e : Err(e, Call("match_token", kind.tag, i, e)))

match_token(kind, i) ==
    IF i # <<>> /\ KindEq(i[1].kind, kind)
    THEN Ok(Tail(i), i[1], Call("match_token", kind.tag, i, NoErr))
    ELSE With([msg |-> "JsonToken Kind {kind} does not match", arg |-> Display(kind)],
              LAMBDA e : Err(e, Call("match_token", kind.tag, i, e)))

match_text(text, i) ==
    IF i # <<>> /\ Text(i[1]) = text
    THEN Ok(Tail(i), i[1], Call("match_text", text, i, NoErr))
    ELSE With([msg |-> "Json Text {text} does not match", arg |-> text],
              LAMBDA e : Err(e, Call("match_text", text, i, e)))

parse_string(i) ==
    IF i # <<>> /\ i[1].kind.tag = "String"
    THEN Ok(Tail(i), JsonExpr("String", TrimMatches(i[1].kind.val, Quote)),
            Call("parse_string", "String", i, NoErr))
    ELSE With([msg |-> "JsonToken Kind String does not match", arg |-> <<>>],
              LAMBDA e : Err(e, Call("parse_string", "String", i, e)))

(***************************************************************************)
(* nom combinators, specialised to the parsers this crate builds.          *)
(***************************************************************************)
\* mutant: the key is matched like a value, a number being accepted too
parse_obj_member_any_key(i) ==
    With(IF i # <<>> /\ i[1].kind.tag = "Number"
         THEN Ok(Tail(i), JsonExpr("Number", i[1].kind.val),
                 Call("parse_number", "Number", i, NoErr))
         ELSE parse_string(i), LAMBDA k :
      IF ~k.ok THEN k
      ELSE With(match_token(Unit("Colon"), k.rest), LAMBDA c :
        IF ~c.ok THEN Err(c.err, k.calls \o c.calls)
        ELSE With(parse_string(c.rest), LAMBDA v :
          IF ~v.ok THEN Err(v.err, k.calls \o c.calls \o v.calls)
          ELSE Ok(v.rest, <<k.out, c.out, v.out>>, k.calls \o c.calls \o v.calls))))

\* tuple((parse_string, match_token(Colon), parse_string)): one member
parse_obj_member(i) ==
    With(parse_string(i), LAMBDA k :
      IF ~k.ok THEN k
      ELSE With(match_token(Unit("Colon"), k.rest), LAMBDA c :
        IF ~c.ok THEN Err(c.err, k.calls \o c.calls)
        ELSE With(parse_string(c.rest), LAMBDA v :
          IF ~v.ok THEN Err(v.err, k.calls \o c.calls \o v.calls)
          ELSE Ok(v.rest, <<k.out, c.out, v.out>>, k.calls \o c.calls \o v.calls))))

\* the parsers handed to separated_list0
Apply(p, i) ==
    IF p = "comma" THEN match_token(Unit("Comma"), i)
    ELSE IF p = "parse_string" THEN parse_string(i)
    ELSE parse_obj_member(i)

\* mutant: an element failing after a separator ends the list after the
\* separator, not before it
RECURSIVE SeparatedLoopKeepsSeparator(_, _, _)
SeparatedLoopKeepsSeparator(sep, f, acc) ==
    With(Apply(sep, acc.rest), LAMBDA s :
      IF ~s.ok THEN Ok(acc.rest, acc.out, acc.calls \o s.calls)
      ELSE With(Apply(f, s.rest), LAMBDA e :
        IF ~e.ok THEN Ok(s.rest, acc.out, acc.calls \o s.calls \o e.calls)
        ELSE With(Ok(e.rest, Append(acc.out, e.out), acc.calls \o s.calls \o e.calls),
                  LAMBDA next : SeparatedLoopKeepsSeparator(sep, f, next))))

\* mutant: an element failing after a separator fails the whole list
RECURSIVE SeparatedLoopPropagates(_, _, _)
SeparatedLoopPropagates(sep, f, acc) ==
    With(Apply(sep, acc.rest), LAMBDA s :
      IF ~s.ok THEN Ok(acc.rest, acc.out, acc.calls \o s.calls)
      ELSE With(Apply(f, s.rest), LAMBDA e :
        IF ~e.ok THEN Err(e.err, acc.calls \o s.calls \o e.calls)
        ELSE With(Ok(e.rest, Append(acc.out, e.out), acc.calls \o s.calls \o e.calls),
                  LAMBDA next : SeparatedLoopPropagates(sep, f, next))))

\* nom::multi::separated_list0, after its first element; acc is the list so
\* far, as the Ok((i, res)) it would be returned in
RECURSIVE SeparatedLoop(_, _, _)
SeparatedLoop(sep, f, acc) ==
    With(Apply(sep, acc.rest), LAMBDA s :
      IF ~s.ok THEN Ok(acc.rest, acc.out, acc.calls \o s.calls)
      ELSE IF Len(s.rest) = Len(acc.rest)
           THEN Err([msg |-> "Error: SeparatedList at {input}", arg |-> <<>>],
                    acc.calls \o s.calls)
      ELSE With(Apply(f, s.rest), LAMBDA e :
        IF ~e.ok THEN Ok(acc.rest, acc.out, acc.calls \o s.calls \o e.calls)
        ELSE With(Ok(e.rest, Append(acc.out, e.out), acc.calls \o s.calls \o e.calls),
                  LAMBDA next : SeparatedLoop(sep, f, next))))

separated_list0(sep, f, i) ==
    With(Apply(f, i), LAMBDA e :
      IF ~e.ok THEN Ok(i, <<>>, e.calls)
      ELSE SeparatedLoop(sep, f, Ok(e.rest, <<e.out>>, e.calls)))

\* delimited(open, list, close) and tuple((open, list, close)) run the same
\* three parsers in order and stop at the first error
Bracketed(open, f, close, i) ==
    With(match_token(Unit(open), i), LAMBDA a :
      IF ~a.ok THEN a
      ELSE With(separated_list0("comma", f, a.rest), LAMBDA l :
        IF ~l.ok THEN Err(l.err, a.calls \o l.calls)
        ELSE With(match_token(Unit(close), l.rest), LAMBDA z :
          IF ~z.ok THEN Err(z.err, a.calls \o l.calls \o z.calls)
          ELSE Ok(z.rest, l.out, a.calls \o l.calls \o z.calls))))

(***************************************************************************)
(* IndexMap: the entries <<key, value>> in iteration order, keys distinct. *)
(***************************************************************************)
\* mutant: a repeated key is removed and appended again
IndexMapInsertMovesToEnd(m, k, v) ==
    Append(SelectSeq(m, LAMBDA e : e[1] # k), <<k, v>>)

IndexMapInsert(m, k, v) ==
    IF \E n \in 1..Len(m) : m[n][1] = k
    THEN [n \in 1..Len(m) |-> IF m[n][1] = k THEN <<k, v>> ELSE m[n]]
    ELSE Append(m, <<k, v>>)

\* collect::<IndexMap<_, _>>()
RECURSIVE IndexMapFromIter(_, _)
IndexMapFromIter(pairs, m) ==
    IF pairs = <<>> THEN m
    ELSE With(IndexMapInsert(m, Head(pairs)[1], Head(pairs)[2]),
              LAMBDA m1 : IndexMapFromIter(Tail(pairs), m1))

IndexMapGet(m, k) == (CHOOSE n \in 1..Len(m) : m[n][1] = k)

(***************************************************************************)
(* The grammar rules.                                                      *)
(***************************************************************************)
parse_array(i) ==
    With(Bracketed("OpenBracket", "parse_string", "CloseBracket", i), LAMBDA r :
      IF r.ok THEN Ok(r.rest, JsonExpr("Array", r.out), r.calls) ELSE r)

parse_obj(i) ==
    With(Bracketed("OpenBrace", "member", "CloseBrace", i), LAMBDA r :
      IF ~r.ok THEN r
      ELSE IF \E n \in 1..Len(r.out) : r.out[n][1].tag # "String"
           THEN Panic(r.calls)
      ELSE With([n \in 1..Len(r.out) |-> <<r.out[n][1].val, r.out[n][3]>>], LAMBDA pairs :
             Ok(r.rest, JsonExpr("Object", IndexMapFromIter(pairs, <<>>)), r.calls)))

(***************************************************************************)
(* The inputs.                                                             *)
(***************************************************************************)
Chars(str) ==
    CASE str = "{" -> <<"{">> [] str = "}" -> <<"}">>
      [] str = "[" -> <<"[">> [] str = "]" -> <<"]">>
      [] str = ":" -> <<":">> [] str = "," -> <<",">>
      [] str = "1" -> <<"1">> [] str = "2" -> <<"2">>
      [] str = "x" -> <<Quote, "x", Quote>>
      [] str = "y" -> <<Quote, "y", Quote>>
      [] str = "a" -> <<Quote, "a", Quote>>
      [] str = "b" -> <<Quote, "b", Quote>>
      [] str = "true" -> <<"t", "r", "u", "e">>
      [] str = "false" -> <<"f", "a", "l", "s", "e">>
      [] str = "null" -> <<"n", "u", "l", "l">>

RECURSIVE Lexemes(_)
Lexemes(q) == IF q = <<>> THEN <<>> ELSE Chars(Head(q)) \o Lexemes(Tail(q))

\* every text of at most MaxSrcLen characters over the alphabet
LexAlphabet == {Quote, Backslash, "e", "1", "0", ".", "-", " ", ","}
LexSources == SeqsUpTo(LexAlphabet, MaxSrcLen)

\* "[" followed by at most MaxArrToks lexemes
ArrSources ==
    {Lexemes(<<"[">> \o q) : q \in SeqsUpTo({"]", ",", "a", "1"}, MaxArrToks)}

\* "{" followed by at most MaxObjToks lexemes
ObjSources ==
    {Lexemes(<<"{">> \o q) : q \in SeqsUpTo({"}", ":", ",", "a", "1"}, MaxObjToks)}

\* { "k1" : "v1" , ... } with at most MaxMembers members
RECURSIVE Members(_)
Members(ms) ==
    IF ms = <<>> THEN <<>>
    ELSE <<Head(ms)[1], ":", Head(ms)[2]>>
         \o (IF Len(ms) > 1 THEN <<",">> ELSE <<>>) \o Members(Tail(ms))

WellFormedObjects ==
    {Lexemes(<<"{">> \o Members(ms) \o <<"}">>) :
        ms \in SeqsUpTo({"a", "b"} \X {"a", "b"}, MaxMembers)}

\* the literals and the nested document of the testable properties, and the
\* crate's own test inputs
NestedSource ==
    Lexemes(<<"{", "x", ":", "{", "y", ":", "[", "1", ",", "2", "]", "}", "}">>)
LiteralSources ==
    {Chars("true"), Chars("false"), Chars("null"), <<"1">>, <<"-", "3", ".", "5", "e", "2">>,
     Chars("a")}
Samples ==
    LiteralSources \cup {NestedSource, Lexemes(<<"[", "a", ",", "b", "]">>), <<>>}

ParseSources == ArrSources \cup ObjSources \cup WellFormedObjects \cup Samples

(***************************************************************************)
(* The state machine: tokenize(source), then one call of a parser entry    *)
(* point on the token slice.                                               *)
(***************************************************************************)
NoResult == Ok(<<>>, <<>>, <<>>)

Start(srcs) ==
    /\ source \in srcs
    /\ lexpos = 0
    /\ lexdone = FALSE
    /\ tokens = <<>>
    /\ cursor = <<>>
    /\ op = "none"
    /\ arg = <<>>
    /\ result = NoResult

Init == Start(ParseSources)

InitLex == Start(LexSources)

\* one iteration of collect(): JsonLexer::next, pushing the token or stopping
LexNext ==
    /\ ~lexdone
    /\ \E r \in {JsonLexerNext(source, lexpos)} :
           /\ lexpos' = r.end
           /\ lexdone' = ~r.some
           /\ tokens' = IF r.some THEN Append(tokens, r.token) ELSE tokens
           /\ cursor' = IF r.some THEN cursor ELSE tokens
    /\ UNCHANGED <<source, op, arg, result>>

Called(name, a, res) ==
    /\ lexdone
    /\ op = "none"
    /\ \E r \in {res} :
           /\ op' = name
           /\ arg' = a
           /\ result' = r
           /\ cursor' = IF r.ok THEN r.rest ELSE cursor
    /\ UNCHANGED <<source, lexpos, lexdone, tokens>>

\* the kinds and texts the matchers are asked for
MatchKinds ==
    {tokens[n].kind : n \in 1..Len(tokens)}
        \cup {Unit("Comma"), [tag |-> "Number", val |-> <<1, 0>>]}
MatchTexts == {Text(tokens[n]) : n \in 1..Len(tokens)} \cup {<<",">>, <<"1">>}

MatchToken == \E kind \in MatchKinds : Called("match_token", kind, match_token(kind, cursor))

MatchText == \E text \in MatchTexts : Called("match_text", text, match_text(text, cursor))

ParseString == Called("parse_string", <<>>, parse_string(cursor))

ParseArray == Called("parse_array", <<>>, parse_array(cursor))

ParseObj == Called("parse_obj", <<>>, parse_obj(cursor))

Next == LexNext \/ MatchToken \/ MatchText \/ ParseString \/ ParseArray \/ ParseObj

Spec == Init /\ [][Next]_vars

SpecLex == InitLex /\ [][Next]_vars

(***************************************************************************)
(* The lexical patterns as languages, for stating what the lexer promises. *)
(***************************************************************************)
AllDigits(t) == t # <<>> /\ \A n \in 1..Len(t) : t[n] \in Digit

IsIntPart(t) == AllDigits(t) \/ (Len(t) > 1 /\ t[1] = "-" /\ AllDigits(Tail(t)))

IsFracPart(t) == t = <<>> \/ (t[1] = "." /\ AllDigits(Tail(t)))

IsExpPart(t) ==
    \/ t = <<>>
    \/ /\ t[1] \in {"e", "E"}
       /\ \/ AllDigits(Tail(t))
          \/ (Len(t) > 2 /\ t[2] \in {"+", "-"} /\ AllDigits(SubSeq(t, 3, Len(t))))

IsNumberText(t) ==
    \E a \in 0..Len(t), b \in 0..Len(t) :
        /\ a <= b
        /\ IsIntPart(Slice(t, 0, a))
        /\ IsFracPart(Slice(t, a, b))
        /\ IsExpPart(Slice(t, b, Len(t)))

RECURSIVE IsStringBody(_)
IsStringBody(t) ==
    IF t = <<>> THEN TRUE
    ELSE IF Head(t) = Backslash
         THEN Len(t) >= 2 /\ t[2] # Newline /\ IsStringBody(SubSeq(t, 3, Len(t)))
    ELSE IF Head(t) = Quote THEN FALSE
    ELSE IsStringBody(Tail(t))

IsStringText(t) ==
    /\ Len(t) >= 2
    /\ t[1] = Quote
    /\ t[Len(t)] = Quote
    /\ IsStringBody(SubSeq(t, 2, Len(t) - 1))

IsLiteralText(t) == \E l \in Literals : l[1] = t

IsLexeme(t) == IsLiteralText(t) \/ IsNumberText(t) \/ IsStringText(t)

\* some pattern matches some text starting at offset p
Recognized(s, p) == \E e \in (p + 1)..Len(s) : IsLexeme(Slice(s, p, e))

AllWhitespace(s, a, b) == \A q \in a..(b - 1) : CharAt(s, q) \in Whitespace

TagAt(ts, n) == IF n \in 1..Len(ts) THEN ts[n].kind.tag ELSE "none"

Tags(ts) == [n \in 1..Len(ts) |-> ts[n].kind.tag]

(***************************************************************************)
(* C1: every valid JSON literal (true, false, null, a number, a quoted     *)
(* string), once tokenized, is parsed by the crate's parsers into the      *)
(* corresponding value: Boolean(true), Boolean(false), Null, Number(n),    *)
(* String(s).                                                              *)
(***************************************************************************)
ExpectedLiteral(tok) ==
    CASE tok.kind.tag = "True" -> JsonExpr("Boolean", TRUE)
      [] tok.kind.tag = "False" -> JsonExpr("Boolean", FALSE)
      [] tok.kind.tag = "Null" -> JsonExpr("Null", <<>>)
      [] tok.kind.tag = "Number" -> JsonExpr("Number", tok.kind.val)
      [] OTHER -> JsonExpr("String", SubSeq(tok.kind.val, 2, Len(tok.kind.val) - 1))

Yields(r, v) == r.ok /\ r.rest = <<>> /\ r.out.tag = v.tag /\ r.out.val = v.val

C1_LiteralsParseToValues ==
    (lexdone /\ source \in LiteralSources) =>
        /\ Len(tokens) = 1
        /\ \E v \in {ExpectedLiteral(tokens[1])} :
              \/ Yields(parse_string(tokens), v)
              \/ Yields(parse_array(tokens), v)
              \/ Yields(parse_obj(tokens), v)

(***************************************************************************)
(* C2: member values and array elements may be any JSON value: the tokens  *)
(* of {"x":{"y":[1,2]}} parse to                                           *)
(* Object{"x": Object{"y": Array[Number(1), Number(2)]}}.                  *)
(***************************************************************************)
NestedValue ==
    JsonExpr("Object",
        << << <<"x">>,
              JsonExpr("Object",
                  << << <<"y">>,
                        JsonExpr("Array", << JsonExpr("Number", <<1, 0>>),
                                             JsonExpr("Number", <<2, 0>>) >>) >> >>) >> >>)

C2_NestedValuesParse ==
    (op = "parse_obj" /\ source = NestedSource) =>
        /\ result.ok
        /\ result.rest = <<>>
        /\ result.out = NestedValue

(***************************************************************************)
(* C3: parse_string on a String token consumes that one token and yields   *)
(* its raw text with exactly one leading and one trailing double quote     *)
(* removed, every other character kept.                                    *)
(***************************************************************************)
C3_StripsOneQuoteEachSide ==
    (op = "parse_string" /\ TagAt(tokens, 1) = "String") =>
        /\ result.ok
        /\ cursor = Tail(tokens)
        /\ result.out.tag = "String"
        /\ result.out.val = SubSeq(Text(tokens[1]), 2, Len(Text(tokens[1])) - 1)

(***************************************************************************)
(* C4: parse_obj yields a mapping whose distinct keys iterate in the order *)
(* of their first appearance in the token stream, and whose value for a    *)
(* key is the value of the key's last occurrence.                          *)
(***************************************************************************)
\* the members the tokens spell: key at token 4j-2, value at token 4j
MemberCount == (Len(tokens) - Len(result.rest) - 1) \div 4
MemberKey(j) == parse_string(<<tokens[4 * j - 2]>>).out.val
MemberValue(j) == parse_string(<<tokens[4 * j]>>).out
FirstOf(k) == CHOOSE j \in 1..MemberCount :
                  MemberKey(j) = k /\ \A h \in 1..(j - 1) : MemberKey(h) # k
LastOf(k) == CHOOSE j \in 1..MemberCount :
                 MemberKey(j) = k /\ \A h \in (j + 1)..MemberCount : MemberKey(h) # k

C4_KeysInFirstAppearanceOrderLastValueWins ==
    (op = "parse_obj" /\ result.ok) =>
        \E m \in {result.out.val} :
            /\ \A j \in 1..MemberCount : \E a \in 1..Len(m) : m[a][1] = MemberKey(j)
            /\ \A a \in 1..Len(m) : \E j \in 1..MemberCount : m[a][1] = MemberKey(j)
            /\ \A a \in 1..Len(m), b \in 1..Len(m) :
                  a < b => m[a][1] # m[b][1] /\ FirstOf(m[a][1]) < FirstOf(m[b][1])
            /\ \A a \in 1..Len(m) : m[a][2] = MemberValue(LastOf(m[a][1]))
            /\ \A a \in 1..Len(m) : m[IndexMapGet(m, m[a][1])][2] = m[a][2]

\* {"a": v1, "b": v2, "a": v3} with v1 # v3 has been parsed
C4_Witness ==
    /\ op = "parse_obj"
    /\ result.ok
    /\ MemberCount = 3
    /\ MemberKey(1) = MemberKey(3)
    /\ MemberKey(1) # MemberKey(2)
    /\ MemberValue(1) # MemberValue(3)

(***************************************************************************)
(* C5: a trailing comma is rejected: when the comma is immediately         *)
(* followed by the closing delimiter, parse_array / parse_obj returns an   *)
(* error, and no value they return was closed right after a comma.         *)
(***************************************************************************)
\* the first closing delimiter of the tokens comes right after a comma
TrailingComma(ts, close) ==
    \E n \in 2..Len(ts) :
        /\ ts[n].kind.tag = close
        /\ ts[n - 1].kind.tag = "Comma"
        /\ \A k \in 1..(n - 1) : ts[k].kind.tag # close

C5_TrailingCommaRejected ==
    /\ (op = "parse_array" /\ TrailingComma(tokens, "CloseBracket"))
           => ~result.ok /\ ~result.panic
    /\ (op = "parse_obj" /\ TrailingComma(tokens, "CloseBrace"))
           => ~result.ok /\ ~result.panic
    /\ (op \in {"parse_array", "parse_obj"} /\ result.ok)
           => TagAt(tokens, Len(tokens) - Len(result.rest) - 1) # "Comma"

\* ["a","a",] and {"a":"a",} have been refused
C5_Witness ==
    \/ /\ op = "parse_array"
       /\ Tags(tokens) = <<"OpenBracket", "String", "Comma", "String", "Comma", "CloseBracket">>
       /\ ~result.ok
    \/ /\ op = "parse_obj"
       /\ Tags(tokens) = <<"OpenBrace", "String", "Colon", "String", "Comma", "CloseBrace">>
       /\ ~result.ok

(***************************************************************************)
(* C6: match_token(kind) succeeds iff the cursor is non-empty and its      *)
(* first token's kind equals kind; match_text(text) succeeds iff the       *)
(* cursor is non-empty and its first token's source text equals text; on   *)
(* success each returns that token and the cursor advanced by one token,   *)
(* on failure each returns an error and the cursor is where it was.        *)
(***************************************************************************)
FirstMatches ==
    /\ tokens # <<>>
    /\ IF op = "match_token"
       THEN tokens[1].kind.tag = arg.tag /\ tokens[1].kind.val = arg.val
       ELSE Slice(source, tokens[1].span[1], tokens[1].span[2]) = arg

C6_MatchersTakeExactlyOneMatchingToken ==
    (op \in {"match_token", "match_text"}) =>
        /\ result.ok <=> FirstMatches
        /\ ~result.panic
        /\ result.ok => result.out = tokens[1] /\ result.rest = Tail(tokens)
                            /\ cursor = Tail(tokens)
        /\ ~result.ok => cursor = tokens /\ result.err # NoErr

\* a Number token matched by kind whose text a same-valued literal differs
\* from, and a mismatch on a non-empty cursor
C6_Witness ==
    /\ op = "match_token"
    /\ result.ok
    /\ arg.tag = "Number"
    /\ Len(tokens) > 1
    /\ Text(tokens[1]) # FormatF64(arg.val)

(***************************************************************************)
(* C7: tokenize never fails, and where no lexical pattern matches the scan *)
(* stops: the result is exactly the tokens before that position, in order, *)
(* and nothing after it is emitted.                                        *)
(***************************************************************************)
TokenEnd(n) == IF n = 0 THEN 0 ELSE tokens[n].span[2]

C7_ScanStopsAtFirstUnrecognized ==
    /\ lexpos <= Len(source)
    \* every token is a lexeme, and only whitespace lies between the tokens
    /\ \A n \in 1..Len(tokens) :
          /\ IsLexeme(Slice(source, tokens[n].span[1], tokens[n].span[2]))
          /\ AllWhitespace(source, TokenEnd(n - 1), tokens[n].span[1])
          /\ tokens[n].span[2] <= lexpos
    \* the scan stopped at the end of the text or where nothing matches
    /\ lexdone =>
          /\ AllWhitespace(source, TokenEnd(Len(tokens)), lexpos)
          /\ lexpos = Len(source) \/ ~Recognized(source, lexpos)
    /\ ~lexdone => lexpos = TokenEnd(Len(tokens))

\* the scan stopped early, after a token and before a text that would lex
C7_Witness ==
    /\ lexdone
    /\ tokens # <<>>
    /\ lexpos < Len(source)
    /\ \E p \in (lexpos + 1)..(Len(source) - 1) : Recognized(source, p)

(***************************************************************************)
(* C8: each token's text is source[span], each span is non-empty and       *)
(* within the source, and the spans are strictly increasing and do not     *)
(* overlap.                                                                *)
(***************************************************************************)
C8_SpansOrderedTextIsSourceSpan ==
    \A n \in 1..Len(tokens) :
        /\ tokens[n].source = source
        /\ 0 <= tokens[n].span[1]
        /\ tokens[n].span[1] < tokens[n].span[2]
        /\ tokens[n].span[2] <= Len(source)
        /\ Text(tokens[n]) = Slice(source, tokens[n].span[1], tokens[n].span[2])
        /\ tokens[n].at = Text(tokens[n])
        /\ tokens[n].kind.tag = "String" => tokens[n].kind.val = Text(tokens[n])
        /\ n > 1 => /\ tokens[n - 1].span[2] <= tokens[n].span[1]
                    /\ tokens[n - 1].span[1] < tokens[n].span[1]

\* three tokens, with whitespace skipped between two of them
C8_Witness ==
    /\ Len(tokens) >= 3
    /\ tokens[1].span[2] < tokens[2].span[1]

(***************************************************************************)
(* C9 as stated: when the member-value matcher after a colon or the        *)
(* element matcher after a comma fails inside parse_obj / parse_array, no  *)
(* further matcher is attempted and the error returned is that failure's.  *)
(***************************************************************************)
\* call k is the first failure, of parse_string, right after a matched
\* colon or comma
ValueFailure(k) ==
    /\ op \in {"parse_obj", "parse_array"}
    /\ k \in 2..Len(result.calls)
    /\ \A j \in 1..(k - 1) : result.calls[j].ok
    /\ ~result.calls[k].ok
    /\ result.calls[k].fn = "parse_string"
    /\ result.calls[k - 1].what \in {"Colon", "Comma"}

ItemStart(k) ==
    IF result.calls[k - 1].what = "Comma" THEN result.calls[k - 1].left
    ELSE IF k > 3 /\ result.calls[k - 3].what = "Comma" THEN result.calls[k - 3].left
    ELSE result.calls[k - 2].left

C10_ParseObjNeverPanics ==
    (op = "parse_obj") =>
        /\ ~result.panic
        /\ result.ok => result.out.tag = "Object"
        /\ ~result.ok => result.out = <<>> /\ result.err # NoErr /\ cursor = tokens
        /\ tokens = <<>> => ~result.ok
        /\ (TagAt(tokens, 1) = "OpenBrace" /\ TagAt(tokens, 2) \notin {"String", "CloseBrace"})
               => ~result.ok
        /\ (TagAt(tokens, 1) = "OpenBrace" /\ TagAt(tokens, 2) = "String"
               /\ TagAt(tokens, 3) = "Colon" /\ TagAt(tokens, 4) # "String") => ~result.ok
        /\ (\A n \in 1..Len(tokens) : tokens[n].kind.tag # "CloseBrace") => ~result.ok

\* {"a":} and {1:"a"} have been refused
C10_Witness ==
    /\ op = "parse_obj"
    /\ ~result.ok
    /\ \/ Tags(tokens) = <<"OpenBrace", "String", "Colon", "CloseBrace">>
       \/ Tags(tokens) = <<"OpenBrace", "Number", "Colon", "String", "CloseBrace">>

=============================================================================
